---- MODULE Spec2Model ----
(***************************************************************************)
(* serde_iter: seq::serialize, map::serialize and CloneOnce.               *)
(*                                                                         *)
(* Two specifications share this module.                                   *)
(*   Spec      a struct field `bar` (a plain cloneable iterator or a       *)
(*             CloneOnce) is serialized up to MaxRuns times by             *)
(*             seq::serialize or map::serialize against a sink whose       *)
(*             calls may fail.                                             *)
(*   SpecOnce  a caller uses the CloneOnce API directly: From, clone()     *)
(*             and next() on a family of adapters.                         *)
(* The wrapped iterator is a finite single-pass iterator over a list       *)
(* (std::vec::Drain in the doc-tests): next() hands out the head of what   *)
(* remains and keeps returning None once nothing remains.                  *)
(***************************************************************************)
EXTENDS Integers, Sequences, FiniteSets, TLC

\* ---------------------------------------------------------------- bounds
\* longest iterable
MaxLen == 2
\* number of serializations of the same value
MaxRuns == 3
\* number of adapters a caller derives by clone() in SpecOnce
MaxAdapters == 3

\* item values (seq), and keys and values of the pairs (map)
Vals == {1, 2}
Pairs == Vals \X Vals
\* the failures a sink may report
Errors == {"e1", "e2"}
Outcomes == {"ok"} \cup Errors

SeqsUpTo(S, n) == UNION {[1..k -> S] : k \in 0..n}

IsPrefix(s, t) == Len(s) <= Len(t) /\ SubSeq(t, 1, Len(s)) = s

VARIABLES
    kind,     \* "seq" | "map": the function the field is serialized with
    wrap,     \* "plain" (an iterator whose Clone copies) | "once" (CloneOnce)
    data,     \* the items the iterable was built over
    bar,      \* the field: the slot of the value being serialized
    pc,       \* position inside serialize
    iter,     \* serialize's local: the clone being consumed
    calls,    \* the sink calls of the current run, in order
    result,   \* what the current run returned
    runs,     \* serializations started so far
    okRuns,   \* serializations that returned Ok so far
    pulled,   \* items pulled from the wrapped iterator, over all runs
    cells,    \* SpecOnce: the adapters, cells[1] the constructed one
    parent,   \* SpecOnce: parent[i] is the adapter i was cloned from (0: From)
    last,     \* SpecOnce: the latest API call and what it returned
    taken,    \* SpecOnce: adapters on which clone() has succeeded
    drained,  \* SpecOnce: per adapter, how often next() returned None (max 2)
    yielded   \* SpecOnce: every item a next() returned, in order

serVars == <<kind, wrap, bar, pc, iter, calls, result, runs, okRuns, pulled>>
onceVars == <<cells, parent, last, taken, drained, yielded>>
vars == <<data, serVars, onceVars>>

\* ------------------------------------------------ Option<I> and iterators
\* RefCell<Option<I>>: the iterator is the list of the items it has left
None == [some |-> FALSE, it |-> <<>>]
Some(s) == [some |-> TRUE, it |-> s]

\* the wrapped iterator's next(): (item, iterator afterwards)
IterNext(s) ==
    IF s = <<>>
    THEN [some |-> FALSE, v |-> <<>>, it |-> s]
    ELSE [some |-> TRUE, v |-> <<Head(s)>>, it |-> Tail(s)]

\* the wrapped iterator's size_hint().0
IterSizeHint(s) == Len(s)

\* CloneOnce::from
From(s) == Some(s)

\* A clone that copies the slot and leaves the source loaded.
CloneOnceCloneCopies(cell) ==
    IF ~cell.some
    THEN [panic |-> TRUE, src |-> None, new |-> None]
    ELSE [panic |-> FALSE, src |-> cell, new |-> cell]

\* A clone of an empty adapter that hands out an empty adapter.
CloneOnceCloneLenient(cell) ==
    [panic |-> FALSE, src |-> None, new |-> cell]

\* A clone that leaves a fresh, exhausted iterator in a slot it found empty.
CloneOnceCloneRefills(cell) ==
    IF ~cell.some
    THEN [panic |-> TRUE, src |-> Some(<<>>), new |-> None]
    ELSE [panic |-> FALSE, src |-> None, new |-> Some(cell.it)]

\* CloneOnce::clone: take() the slot, panic if it held nothing
CloneOnceClone(cell) ==
    IF ~cell.some
    THEN [panic |-> TRUE, src |-> None, new |-> None]
    ELSE [panic |-> FALSE, src |-> None, new |-> Some(cell.it)]

\* A next() that empties the slot once the wrapped iterator is exhausted.
CloneOnceNextEmpties(cell) ==
    IF ~cell.some
    THEN [panic |-> TRUE, some |-> FALSE, v |-> <<>>, cell |-> cell]
    ELSE LET r == IterNext(cell.it)
         IN [panic |-> FALSE, some |-> r.some, v |-> r.v,
             cell |-> IF r.some THEN Some(r.it) ELSE None]

\* A next() on an empty slot that returns None instead of panicking.
CloneOnceNextLenient(cell) ==
    IF ~cell.some
    THEN [panic |-> FALSE, some |-> FALSE, v |-> <<>>, cell |-> cell]
    ELSE LET r == IterNext(cell.it)
         IN [panic |-> FALSE, some |-> r.some, v |-> r.v, cell |-> Some(r.it)]

\* A next() that hands out the head without advancing the wrapped iterator.
CloneOnceNextPeeks(cell) ==
    IF ~cell.some
    THEN [panic |-> TRUE, some |-> FALSE, v |-> <<>>, cell |-> cell]
    ELSE LET r == IterNext(cell.it)
         IN [panic |-> FALSE, some |-> r.some, v |-> r.v, cell |-> cell]

\* CloneOnce::next: expect() the slot, then the wrapped iterator's next()
CloneOnceNext(cell) ==
    IF ~cell.some
    THEN [panic |-> TRUE, some |-> FALSE, v |-> <<>>, cell |-> cell]
    ELSE LET r == IterNext(cell.it)
         IN [panic |-> FALSE, some |-> r.some, v |-> r.v, cell |-> Some(r.it)]

\* A clone that hands the original's items to the copy and leaves it drained.
CloneOfDrains(w, cell) ==
    IF w = "once"
    THEN CloneOnceClone(cell)
    ELSE [panic |-> FALSE, src |-> Some(<<>>), new |-> cell]

\* T::clone of the field, by the kind of iterable
CloneOf(w, cell) ==
    IF w = "once"
    THEN CloneOnceClone(cell)
    ELSE [panic |-> FALSE, src |-> cell, new |-> cell]

\* Iterator::next of the clone, by the kind of iterable
NextOf(w, cell) ==
    IF w = "once"
    THEN CloneOnceNext(cell)
    ELSE LET r == IterNext(cell.it)
         IN [panic |-> FALSE, some |-> r.some, v |-> r.v, cell |-> Some(r.it)]

\* size_hint().0: CloneOnce keeps Iterator's default, (0, None)
SizeHintOf(w, cell) ==
    IF w = "once" THEN 0 ELSE IterSizeHint(cell.it)

\* ------------------------------------------------------------------ sink
NoResult == [tag |-> "none", val |-> <<>>]
Ok(v) == [tag |-> "ok", val |-> v]
Err(e) == [tag |-> "err", val |-> e]
Panic(msg) == [tag |-> "panic", val |-> msg]

\* the elements (entries) a call log submitted successfully or not
Submitted(c) ==
    LET F[i \in 0..Len(c)] ==
            IF i = 0 THEN <<>>
            ELSE IF c[i].op = "item" THEN F[i - 1] \o c[i].arg ELSE F[i - 1]
    IN F[Len(c)]

\* what the sink has accepted: its Ok value when end() succeeds
Accepted(c) ==
    LET F[i \in 0..Len(c)] ==
            IF i = 0 THEN <<>>
            ELSE IF c[i].op = "item" /\ c[i].res = "ok"
                 THEN F[i - 1] \o c[i].arg ELSE F[i - 1]
    IN F[Len(c)]

\* ------------------------------------------------------------- serialize
\* serialize returns (or unwinds): the locals are dropped
Return(res) ==
    /\ pc' = "done"
    /\ result' = res
    /\ iter' = None
    /\ okRuns' = IF res.tag = "ok" THEN okRuns + 1 ELSE okRuns

\* An entry that has both functions clone before they open the sink.
CallClonesFirst ==
    /\ pc \in {"idle", "done"}
    /\ runs < MaxRuns
    /\ runs' = runs + 1
    /\ pc' = "clone"
    /\ calls' = <<>>
    /\ result' = NoResult
    /\ iter' = None
    /\ UNCHANGED <<kind, wrap, data, bar, okRuns, pulled, onceVars>>

\* An entry that has both functions open the sink before they clone.
CallOpensFirst ==
    /\ pc \in {"idle", "done"}
    /\ runs < MaxRuns
    /\ runs' = runs + 1
    /\ pc' = "open"
    /\ calls' = <<>>
    /\ result' = NoResult
    /\ iter' = None
    /\ UNCHANGED <<kind, wrap, data, bar, okRuns, pulled, onceVars>>

\* the derived Serialize impl calls the field's `with` function
Call ==
    /\ pc \in {"idle", "done"}
    /\ runs < MaxRuns
    /\ runs' = runs + 1
    /\ pc' = IF kind = "seq" THEN "clone" ELSE "open"
    /\ calls' = <<>>
    /\ result' = NoResult
    /\ iter' = None
    /\ UNCHANGED <<kind, wrap, data, bar, okRuns, pulled, onceVars>>

\* seq.rs:156  let iter = iter.clone().into_iter();
SeqClone ==
    /\ kind = "seq" /\ pc = "clone"
    /\ LET r == CloneOf(wrap, bar)
       IN IF r.panic
          THEN /\ Return(Panic("Attempt to clone a CloneOnce twice"))
               /\ bar' = r.src
          ELSE /\ bar' = r.src
               /\ iter' = r.new
               /\ pc' = "open"
               /\ UNCHANGED <<result, okRuns>>
    /\ UNCHANGED <<kind, wrap, data, calls, runs, pulled, onceVars>>

\* seq.rs:157  serializer.serialize_seq(Some(iter.size_hint().0))?
SeqOpen ==
    /\ kind = "seq" /\ pc = "open"
    /\ \E o \in Outcomes :
        /\ calls' = Append(calls, [op |-> "open", arg |-> <<SizeHintOf(wrap, iter)>>, res |-> o])
        /\ IF o = "ok"
           THEN pc' = "loop" /\ UNCHANGED <<result, iter, okRuns>>
           ELSE Return(Err(o))
    /\ UNCHANGED <<kind, wrap, data, bar, runs, pulled, onceVars>>

\* A loop that stops after the first item it submits.
LoopTurnBreaks(next) ==
    /\ pc = "loop"
    /\ IF next.panic
       THEN /\ Return(Panic("Attempt to iterate over a CloneOnce"))
            /\ UNCHANGED <<calls, pulled>>
       ELSE IF ~next.some
       THEN /\ pc' = "end"
            /\ iter' = next.cell
            /\ UNCHANGED <<calls, pulled, result, okRuns>>
       ELSE /\ pulled' = IF wrap = "once" THEN pulled \o next.v ELSE pulled
            /\ \E o \in Outcomes :
                /\ calls' = Append(calls, [op |-> "item", arg |-> next.v, res |-> o])
                /\ IF o = "ok"
                   THEN /\ iter' = next.cell
                        /\ pc' = "end"
                        /\ UNCHANGED <<result, okRuns>>
                   ELSE Return(Err(o))
    /\ UNCHANGED <<kind, wrap, data, bar, runs, onceVars>>

\* A loop that unwraps next(): the end of the iterator is a fault.
LoopTurnUnwraps(next) ==
    /\ pc = "loop"
    /\ IF next.panic \/ ~next.some
       THEN /\ Return(Panic("called Option::unwrap() on a None value"))
            /\ UNCHANGED <<calls, pulled>>
       ELSE /\ pulled' = IF wrap = "once" THEN pulled \o next.v ELSE pulled
            /\ \E o \in Outcomes :
                /\ calls' = Append(calls, [op |-> "item", arg |-> next.v, res |-> o])
                /\ IF o = "ok"
                   THEN /\ iter' = next.cell
                        /\ UNCHANGED <<pc, result, okRuns>>
                   ELSE Return(Err(o))
    /\ UNCHANGED <<kind, wrap, data, bar, runs, onceVars>>

\* A loop that drops the sink's answer to an item instead of returning it.
LoopTurnIgnoresError(next) ==
    /\ pc = "loop"
    /\ IF next.panic
       THEN /\ Return(Panic("Attempt to iterate over a CloneOnce"))
            /\ UNCHANGED <<calls, pulled>>
       ELSE IF ~next.some
       THEN /\ pc' = "end"
            /\ iter' = next.cell
            /\ UNCHANGED <<calls, pulled, result, okRuns>>
       ELSE /\ pulled' = IF wrap = "once" THEN pulled \o next.v ELSE pulled
            /\ \E o \in Outcomes :
                /\ calls' = Append(calls, [op |-> "item", arg |-> next.v, res |-> o])
                /\ iter' = next.cell
                /\ UNCHANGED <<pc, result, okRuns>>
    /\ UNCHANGED <<kind, wrap, data, bar, runs, onceVars>>

\* one turn of the for loop: next() on the clone, then submit the item
LoopTurn(next) ==
    /\ pc = "loop"
    /\ IF next.panic
       THEN /\ Return(Panic("Attempt to iterate over a CloneOnce"))
            /\ UNCHANGED <<calls, pulled>>
       ELSE IF ~next.some
       THEN /\ pc' = "end"
            /\ iter' = next.cell
            /\ UNCHANGED <<calls, pulled, result, okRuns>>
       ELSE /\ pulled' = IF wrap = "once" THEN pulled \o next.v ELSE pulled
            /\ \E o \in Outcomes :
                /\ calls' = Append(calls, [op |-> "item", arg |-> next.v, res |-> o])
                /\ IF o = "ok"
                   THEN /\ iter' = next.cell
                        /\ UNCHANGED <<pc, result, okRuns>>
                   ELSE Return(Err(o))
    /\ UNCHANGED <<kind, wrap, data, bar, runs, onceVars>>

\* seq.rs:158-160  for value in iter { seq.serialize_element(&value)?; }
SeqElement == kind = "seq" /\ LoopTurn(NextOf(wrap, iter))

\* the sink's end(): the last call of serialize, its result returned as is
Finish ==
    /\ pc = "end"
    /\ \E o \in Outcomes :
        /\ calls' = Append(calls, [op |-> "end", arg |-> <<>>, res |-> o])
        /\ Return(IF o = "ok" THEN Ok(Accepted(calls)) ELSE Err(o))
    /\ UNCHANGED <<kind, wrap, data, bar, runs, pulled, onceVars>>

\* seq.rs:161  seq.end()
SeqEnd == kind = "seq" /\ Finish

\* map.rs:37  serializer.serialize_map(Some(iter.size_hint().0))?
MapOpen ==
    /\ kind = "map" /\ pc = "open"
    /\ \E o \in Outcomes :
        /\ calls' = Append(calls, [op |-> "open", arg |-> <<SizeHintOf(wrap, bar)>>, res |-> o])
        /\ IF o = "ok"
           THEN pc' = "clone" /\ UNCHANGED <<result, iter, okRuns>>
           ELSE Return(Err(o))
    /\ UNCHANGED <<kind, wrap, data, bar, runs, pulled, onceVars>>

\* map.rs:38  iter.clone(), evaluated once, before the first turn of the loop
MapClone ==
    /\ kind = "map" /\ pc = "clone"
    /\ LET r == CloneOf(wrap, bar)
       IN IF r.panic
          THEN /\ Return(Panic("Attempt to clone a CloneOnce twice"))
               /\ bar' = r.src
          ELSE /\ bar' = r.src
               /\ iter' = r.new
               /\ pc' = "loop"
               /\ UNCHANGED <<result, okRuns>>
    /\ UNCHANGED <<kind, wrap, data, calls, runs, pulled, onceVars>>

\* A map loop that skips an entry whose key it has already submitted.
MapEntryDedup ==
    /\ kind = "map"
    /\ LET n == NextOf(wrap, iter)
       IN IF n.some /\ \E i \in DOMAIN calls :
                          calls[i].op = "item" /\ calls[i].arg[1][1] = n.v[1][1]
          THEN /\ pc = "loop"
               /\ iter' = n.cell
               /\ pulled' = IF wrap = "once" THEN pulled \o n.v ELSE pulled
               /\ UNCHANGED <<kind, wrap, data, bar, pc, calls, result, runs,
                              okRuns, onceVars>>
          ELSE LoopTurn(n)

\* map.rs:38-40  for (key, value) in ... { map.serialize_entry(&key, &value)?; }
MapEntry == kind = "map" /\ LoopTurn(NextOf(wrap, iter))

\* map.rs:41  map.end()
MapEnd == kind = "map" /\ Finish

\* ------------------------------------------------------ the CloneOnce API
NoCall == [op |-> "from", on |-> 1, ret |-> "new", v |-> <<>>]

\* caller: b = a.clone()
CloneOn(a) ==
    /\ LET r == CloneOnceClone(cells[a])
       IN IF r.panic
          THEN /\ cells' = [cells EXCEPT ![a] = r.src]
               /\ last' = [op |-> "clone", on |-> a, ret |-> "panic", v |-> <<>>]
               /\ UNCHANGED <<parent, taken>>
          ELSE /\ Len(cells) < MaxAdapters
               /\ cells' = Append([cells EXCEPT ![a] = r.src], r.new)
               /\ parent' = Append(parent, a)
               /\ taken' = taken \cup {a}
               /\ last' = [op |-> "clone", on |-> a, ret |-> "new", v |-> <<>>]
    /\ UNCHANGED <<data, serVars, drained, yielded>>

\* caller: a.next()
NextOn(a) ==
    /\ LET r == CloneOnceNext(cells[a])
       IN /\ cells' = [cells EXCEPT ![a] = r.cell]
          /\ last' = [op |-> "next", on |-> a,
                      ret |-> IF r.panic THEN "panic" ELSE IF r.some THEN "some" ELSE "none",
                      v |-> r.v]
          /\ yielded' = IF r.some THEN yielded \o r.v ELSE yielded
          /\ drained' = IF ~r.panic /\ ~r.some /\ drained[a] < 2
                        THEN [drained EXCEPT ![a] = @ + 1] ELSE drained
    /\ UNCHANGED <<data, serVars, parent, taken>>

Clone == \E a \in DOMAIN cells : CloneOn(a)

IterNextStep == \E a \in DOMAIN cells : NextOn(a)

\* ------------------------------------------------------- specifications
InitSer ==
    /\ kind \in {"seq", "map"}
    /\ wrap \in {"plain", "once"}
    /\ data \in IF kind = "seq" THEN SeqsUpTo(Vals, MaxLen) ELSE SeqsUpTo(Pairs, MaxLen)
    /\ bar = IF wrap = "once" THEN From(data) ELSE Some(data)
    /\ pc = "idle"
    /\ iter = None
    /\ calls = <<>>
    /\ result = NoResult
    /\ runs = 0
    /\ okRuns = 0
    /\ pulled = <<>>

Init ==
    /\ InitSer
    /\ cells = <<>>
    /\ parent = <<>>
    /\ last = NoCall
    /\ taken = {}
    /\ drained = [a \in 1..MaxAdapters |-> 0]
    /\ yielded = <<>>

Next ==
    \/ Call
    \/ SeqClone
    \/ SeqOpen
    \/ SeqElement
    \/ SeqEnd
    \/ MapOpen
    \/ MapClone
    \/ MapEntry
    \/ MapEnd

Spec == Init /\ [][Next]_vars

InitOnce ==
    /\ kind = "seq"
    /\ wrap = "once"
    /\ data \in SeqsUpTo(Vals, MaxLen)
    /\ bar = None
    /\ pc = "idle"
    /\ iter = None
    /\ calls = <<>>
    /\ result = NoResult
    /\ runs = 0
    /\ okRuns = 0
    /\ pulled = <<>>
    /\ cells = <<From(data)>>
    /\ parent = <<0>>
    /\ last = NoCall
    /\ taken = {}
    /\ drained = [a \in 1..MaxAdapters |-> 0]
    /\ yielded = <<>>

NextOnce ==
    \/ Clone
    \/ IterNextStep

SpecOnce == InitOnce /\ [][NextOnce]_vars

\* ---------------------------------------------------------------- claims
SinkNeverFailed == \A i \in DOMAIN calls : calls[i].res = "ok"

Ops(c) == [i \in DOMAIN c |-> c[i].op]

ItemCalls(c) == Cardinality({i \in DOMAIN c : c[i].op = "item"})

\* the only run a never-failing sink does not see through: a CloneOnce that an
\* earlier run has already emptied
SecondUseFault == wrap = "once" /\ runs > 1 /\ result.tag = "panic"

\* C1: with a sink that never fails, seq::serialize submits exactly the n
\* items of the iterable, the i-th submitted element being the i-th item, and
\* returns the sink's Ok; while it runs, what it has submitted is a prefix of
\* the items.
C1_SeqSubmitsItemsInOrder ==
    (kind = "seq" /\ SinkNeverFailed) =>
        /\ IsPrefix(Submitted(calls), data)
        /\ pc = "done" =>
            \/ SecondUseFault
            \/ /\ result.tag = "ok"
               /\ ItemCalls(calls) = Len(data)
               /\ \A i \in 1..Len(data) : calls[i + 1].op = "item" /\ calls[i + 1].arg = <<data[i]>>
               /\ result.val = data

C1_Witness ==
    /\ kind = "seq" /\ pc = "done" /\ result.tag = "ok"
    /\ Len(data) = MaxLen /\ data[1] # data[2]
    /\ Submitted(calls) = data

\* C2: with a sink that never fails, map::serialize submits exactly the n
\* pairs of the iterable as entries, the i-th entry being the i-th pair, with
\* nothing dropped, merged, reordered or deduplicated: pairs with equal keys
\* reach the sink as they come.
C2_MapSubmitsEntriesInOrder ==
    (kind = "map" /\ SinkNeverFailed) =>
        /\ IsPrefix(Submitted(calls), data)
        /\ pc = "done" =>
            \/ SecondUseFault
            \/ /\ result.tag = "ok"
               /\ ItemCalls(calls) = Len(data)
               /\ \A i \in 1..Len(data) : calls[i + 1].op = "item" /\ calls[i + 1].arg = <<data[i]>>
               /\ result.val = data

C2_Witness ==
    /\ kind = "map" /\ pc = "done" /\ result.tag = "ok"
    /\ Len(data) = MaxLen
    /\ data[1][1] = data[2][1] /\ data[1][2] # data[2][2]
    /\ Submitted(calls) = data

\* C3: for an empty iterable both functions submit nothing; when the sink
\* does not fail they open it, close it and return its Ok, the empty sequence
\* (the empty map), and not an error.
C3_EmptyIterable ==
    (data = <<>> /\ ~SecondUseFault) =>
        /\ ItemCalls(calls) = 0
        /\ (pc = "done" /\ SinkNeverFailed) =>
            /\ Ops(calls) = <<"open", "end">>
            /\ result.tag = "ok"
            /\ result.val = <<>>

C3_Witness ==
    /\ data = <<>> /\ pc = "done" /\ result.tag = "ok"
    /\ Ops(calls) = <<"open", "end">>

\* the adapters cloned from adapter a
Children(a) == {i \in DOMAIN parent : parent[i] = a}

\* C4: once clone() has succeeded on an adapter, its slot is empty and every
\* next() on it panics and returns no item.
C4_NextOnClonedOriginalFaults ==
    /\ \A a \in taken : ~cells[a].some
    /\ (last.op = "next" /\ last.on \in taken) =>
           (last.ret = "panic" /\ last.v = <<>>)

C4_Witness ==
    /\ last.op = "next" /\ last.on = 1 /\ 1 \in taken /\ last.ret = "panic"
    /\ Len(data) > 0

\* C5: clone() on an adapter whose iterator an earlier clone() took away
\* panics, creates no adapter and changes no slot; no adapter is ever the
\* source of two clones.
C5_SecondCloneFaults ==
    /\ [](\A a \in DOMAIN cells : Cardinality(Children(a)) <= 1)
    /\ [][\A a \in taken :
            (last'.op = "clone" /\ last'.on = a /\ <<cells, last>>' # <<cells, last>>)
                => (last'.ret = "panic" /\ cells' = cells /\ parent' = parent)]_vars

C5_Witness ==
    /\ last.op = "clone" /\ last.on = 1 /\ last.ret = "panic"
    /\ 1 \in taken /\ Len(cells) = 2 /\ Len(data) > 0

\* C6: a value holding a CloneOnce over x1..xn: the wrapped iterator hands
\* out each item at most once, in order, over all serializations; when the
\* first serialization returns Ok, every xi has been pulled once and
\* submitted once, in order.
C6_SerializedOnceConsumedOnce ==
    wrap = "once" =>
        /\ IsPrefix(pulled, data)
        /\ (runs = 1 /\ pc = "done" /\ result.tag = "ok") =>
            /\ pulled = data
            /\ Submitted(calls) = data
            /\ result.val = data

C6_Witness ==
    /\ wrap = "once" /\ kind = "seq" /\ runs = 1 /\ pc = "done"
    /\ result.tag = "ok" /\ Len(data) = MaxLen /\ pulled = data

C8_SinkFailurePropagates ==
    /\ \A i \in DOMAIN calls : calls[i].res # "ok" => i = Len(calls)
    /\ pc = "done" =>
        /\ ~SinkNeverFailed =>
               (result.tag = "err" /\ result.val = calls[Len(calls)].res)
        /\ SinkNeverFailed => result.tag \in {"ok", "panic"}
    /\ (pc # "done" /\ runs > 0) => SinkNeverFailed

C8_Witness ==
    /\ pc = "done" /\ result.tag = "err" /\ result.val = "e2"
    /\ Len(calls) > 1 /\ calls[Len(calls)].op = "item" /\ Len(data) = MaxLen
    /\ ItemCalls(calls) = 1

\* C9: for an iterable whose clone is an independent copy, no serialization
\* changes the original, and every serialization submits the same items: a
\* prefix of them while it runs or when the sink fails, all of them when it
\* returns Ok.
C9_OriginalUnchanged ==
    wrap = "plain" =>
        /\ bar = Some(data)
        /\ IsPrefix(Submitted(calls), data)
        /\ pc = "done" => result.tag \in {"ok", "err"}
        /\ (pc = "done" /\ result.tag = "ok") => Submitted(calls) = data

C9_Witness ==
    /\ wrap = "plain" /\ runs = MaxRuns /\ okRuns = MaxRuns /\ pc = "done"
    /\ Len(data) = MaxLen /\ Submitted(calls) = data

Loaded == {a \in DOMAIN cells : cells[a].some}

\* C11: an adapter whose slot is None stays None through every clone() and
\* next(), the clone() that panics on it included.
C11_EmptyStaysEmpty ==
    [][\A a \in DOMAIN cells : ~cells[a].some => ~cells'[a].some]_vars

C11_Witness ==
    /\ Len(cells) = MaxAdapters /\ Loaded = {MaxAdapters}
    /\ last.op = "clone" /\ last.ret = "panic" /\ last.on = 2

\* C12 as claimed: a next() that returns None leaves the adapter's slot None.
C12_ExhaustedBecomesEmpty ==
    (last.op = "next" /\ last.ret = "none") => ~cells[last.on].some

\* C12 as amended: a next() that returns None leaves the adapter Loaded, its
\* slot still holding the exhausted iterator; a slot is None exactly when a
\* clone() took the iterator away, and only calls on such adapters panic.
C12_ExhaustedStaysLoaded ==
    /\ (last.op = "next" /\ last.ret = "none") => cells[last.on] = Some(<<>>)
    /\ \A a \in DOMAIN cells : ~cells[a].some <=> a \in taken
    /\ last.ret = "panic" => last.on \in taken

C12_Witness ==
    /\ last.op = "next" /\ last.ret = "none" /\ last.on = 1
    /\ Len(data) = MaxLen /\ yielded = data
    /\ cells = <<Some(<<>>)>> /\ taken = {}

\* C13 as claimed: in both functions the clone comes before every sink call,
\* so a run that panics in clone() has made no sink call.
C13_CloneBeforeAnySinkCall ==
    /\ pc = "clone" => calls = <<>>
    /\ result.tag = "panic" => calls = <<>>

\* C13 as amended: seq::serialize clones and then opens the sink, so its
\* faulting clone precedes every sink call; map::serialize opens the map sink
\* on the original's size hint and then clones, so its faulting clone comes
\* after one successful open and before any entry.
C13_StepOrder ==
    /\ kind = "seq" =>
        /\ pc = "clone" => calls = <<>>
        /\ pc = "open" => (calls = <<>> /\ iter.some)
        /\ result.tag = "panic" => calls = <<>>
    /\ kind = "map" =>
        /\ pc = "open" => (calls = <<>> /\ ~iter.some)
        /\ pc = "clone" => (Ops(calls) = <<"open">> /\ calls[1].res = "ok" /\ ~iter.some)
        /\ result.tag = "panic" => (Ops(calls) = <<"open">> /\ calls[1].res = "ok")

C13_Witness ==
    /\ kind = "map" /\ wrap = "once" /\ runs = 2 /\ pc = "done"
    /\ result.tag = "panic" /\ Ops(calls) = <<"open">> /\ okRuns = 1

\* C14: the sink calls of a run are one open, then items, then at most one
\* end: the first call and no other is open, every call before the latest one
\* succeeded, end is the last call and is made only once every item of the
\* clone has been accepted, and a returned run made no call after end.
C14_SinkProtocol ==
    /\ \A i \in DOMAIN calls :
        /\ calls[i].op = "open" <=> i = 1
        /\ i < Len(calls) => (calls[i].res = "ok" /\ calls[i].op # "end")
        /\ calls[i].op = "end" => Accepted(calls) = data
    /\ pc \in {"loop", "end"} => calls # <<>>
    /\ pc = "end" => Accepted(calls) = data
    /\ result.tag = "ok" => calls[Len(calls)].op = "end"

C14_Witness ==
    /\ kind = "map" /\ pc = "done" /\ result.tag = "err"
    /\ Len(data) = MaxLen /\ Ops(calls) = <<"open", "item", "item", "end">>

\* C15: of all the adapters derived from one constructed adapter at most one
\* holds the wrapped iterator in any state; a clone() that succeeds leaves its
\* source empty and the adapter it created (the newest one at that moment)
\* loaded, in one step.
C15_AtMostOneLoaded ==
    /\ [](Cardinality(Loaded) <= 1)
    /\ [][(Len(cells') > Len(cells)) =>
            /\ Len(cells') = Len(cells) + 1
            /\ last'.op = "clone" /\ last'.ret = "new"
            /\ cells[last'.on].some
            /\ ~cells'[last'.on].some
            /\ cells'[Len(cells')] = cells[last'.on]
            /\ \A a \in DOMAIN cells : a # last'.on => cells'[a] = cells[a]]_vars

C15_Witness ==
    /\ Len(cells) = MaxAdapters /\ Loaded = {MaxAdapters}
    /\ last.op = "clone" /\ last.ret = "new" /\ Len(data) = MaxLen
    /\ cells[MaxAdapters] = Some(data)

\* C16: over any interleaving of next() and clone() on the family, the items
\* yielded so far, in the order they came out, followed by what the loaded
\* adapter still holds, are the wrapped iterator's items: no item comes out
\* twice or out of order, and a clone taken after k items were yielded holds
\* the items from position k+1 on.
C16_EachItemYieldedOnceInOrder ==
    /\ IsPrefix(yielded, data)
    /\ \A a \in Loaded : yielded \o cells[a].it = data
    /\ last.ret = "some" => (yielded # <<>> /\ last.v = <<yielded[Len(yielded)]>>)

C16_Witness ==
    /\ Len(data) = MaxLen /\ data[1] # data[2]
    /\ Len(cells) = 2 /\ last.op = "clone" /\ last.ret = "new" /\ last.on = 1
    /\ yielded = <<data[1]>> /\ cells[2] = Some(<<data[2]>>)

\* C17: seq::serialize on a loaded CloneOnce empties the original in its
\* first step: when a sink failure is returned the original is empty and the
\* clone is dropped, so the items not submitted are held by no adapter; every
\* later serialization faults in clone() with no sink call.
C17_FailureLosesItems ==
    (kind = "seq" /\ wrap = "once") =>
        /\ pc \notin {"idle", "clone"} => ~bar.some
        /\ (pc = "done" /\ result.tag = "err") => (~bar.some /\ ~iter.some)
        /\ runs > 1 => (calls = <<>> /\ ~bar.some /\ ~iter.some)
        /\ (runs > 1 /\ pc = "done") => result.tag = "panic"

C17_Witness ==
    /\ kind = "seq" /\ wrap = "once" /\ runs = 2 /\ pc = "done"
    /\ result.tag = "panic" /\ okRuns = 0 /\ Len(data) = MaxLen
    /\ Len(pulled) = 1 /\ ~bar.some

====
